---- MODULE Spec2Model ----
(***************************************************************************)
(* A model of src/main.py: the SMA-crossover backtest (data-quality check, *)
(* rolling mean, signal generation, the simulate_trading loop and the      *)
(* performance figures).                                                   *)
(*                                                                         *)
(* A DataFrame is a record of columns, each a sequence of the same length; *)
(* rows are numbered 1..NRows(d).  A float cell is NaN or a rational       *)
(* <<numerator, denominator>>; a price is a whole number <<v, 1>>, and the *)
(* balance, made of price differences, is an integer.                      *)
(***************************************************************************)
EXTENDS Integers, Sequences, FiniteSets, TLC

VARIABLES
    pc,               \* where the modelled call stands
    df,               \* the DataFrame the call works on
    initial_balance,  \* simulate_trading's argument
    balance,          \* simulate_trading's local `balance`
    position,         \* simulate_trading's local `position` (0, 1, -1)
    entry_price,      \* simulate_trading's local `entry_price`
    index,            \* the row df.iterrows() yields next
    log,              \* what the loop printed: <<event, row>> pairs
    final_balance,    \* the value simulate_trading returned (None before)
    window,           \* calculate_sma's argument (0 outside a call)
    sma,              \* the column calculate_sma returned (empty before)
    years,            \* calculate_cagr's argument, a float
    pnl,              \* what calculate_pnl returned
    cagr,             \* how calculate_cagr ended: a float, a complex, a raise
    quality_report,   \* what verify_data_quality returned
    argument,         \* the DataFrame object passed to the stage last called,
                      \* as its caller finds it once the stage has returned
    runs              \* the simulate_trading calls in progress side by side

vars == <<pc, df, initial_balance, balance, position, entry_price, index,
          log, final_balance, window, sma, years, pnl, cagr, quality_report,
          argument, runs>>

None == "None"

\* the variables of simulate_trading, and those of the other calls
simVars == <<initial_balance, balance, position, entry_price, index, log,
             final_balance>>
smaVars == <<window, sma>>
perfVars == <<years, pnl, cagr>>

\* the variables a call does not use stay as they start
SimIdle ==
    /\ initial_balance = 0
    /\ balance = 0
    /\ position = 0
    /\ entry_price = 0
    /\ index = 1
    /\ log = << >>
    /\ final_balance = None
SmaIdle == window = 0 /\ sma = << >>
PerfIdle == years = <<1, 1>> /\ pnl = 0 /\ cagr = [kind |-> None]
QualityIdle == quality_report = None
RunsIdle == runs = << >>

(***************************************************************************)
(* Bounds of the model and the input sets.                                 *)
(***************************************************************************)
MaxBars == 3
MaxLen == 5
MaxWindow == 4
MaxQualityRows == 3
MaxRows == 22
MaxRunBars == 2

Gaps == {0, 1}
Closes == {90, 100, 110}
Signals == {-1, 0, 1}
InitialBalances == {0, 999, 1000, 1005}

NRows(d) == Len(d.timestamp)

\* float cells: NaN, and the float of a whole number
NaN == << >>
Number(v) == <<v, 1>>
IsNaN(x) == x = NaN

\* the whole number in a cell of a price column
Value(x) == x[1] \div x[2]

\* float arithmetic and comparison; a comparison with NaN is false
FAdd(x, y) == IF IsNaN(x) \/ IsNaN(y) THEN NaN
              ELSE <<x[1] * y[2] + y[1] * x[2], x[2] * y[2]>>
FSub(x, y) == IF IsNaN(x) \/ IsNaN(y) THEN NaN
              ELSE <<x[1] * y[2] - y[1] * x[2], x[2] * y[2]>>
FDivInt(x, n) == IF IsNaN(x) THEN NaN ELSE <<x[1], x[2] * n>>
FDiv(x, y) == IF IsNaN(x) \/ IsNaN(y) THEN NaN
              ELSE IF x[2] * y[1] < 0 THEN <<-(x[1] * y[2]), -(x[2] * y[1])>>
              ELSE <<x[1] * y[2], x[2] * y[1]>>
IsWhole(x) == x[1] % x[2] = 0
FGT(x, y) == ~IsNaN(x) /\ ~IsNaN(y) /\ x[1] * y[2] > y[1] * x[2]
FEq(x, y) == ~IsNaN(x) /\ ~IsNaN(y) /\ x[1] * y[2] = y[1] * x[2]

SeqsUpTo(S, n) == UNION {[1..k -> S] : k \in 0..n}

(***************************************************************************)
(* simulate_trading (src/main.py:109-147)                                  *)
(***************************************************************************)

\* mutant of HasNextRow: the body runs once before the iterator is asked
HasNextRowBodyFirst(d, i) == i <= NRows(d) \/ i = 1

\* `for index, row in df.iterrows()`: the iterator still yields row i
HasNextRow(d, i) == i <= NRows(d)

\* the balance floor of the loop head
BalanceFloor == 1000

\* mutant of InsufficientBalance: stops only when nothing is left
InsufficientBalanceAtZero(bal) == bal <= 0

\* `if balance < 1000: ... break`
InsufficientBalance(bal) == bal < BalanceFloor

\* mutant of is_last_day: the day before the last one counts as last too
is_last_dayOrDayBefore(d, i) == d.timestamp[i] >= d.timestamp[NRows(d)] - 1

\* `is_last_day = row['timestamp'] == df['timestamp'].iloc[-1]`
is_last_day(d, i) == d.timestamp[i] = d.timestamp[NRows(d)]

\* mutant of BuyCondition: a Flat signal buys as well
BuyConditionOnFlat(sig, pos) == sig >= 0 /\ pos <= 0

\* the Buy condition and the Sell condition of the if/elif
BuyCondition(sig, pos) == sig = 1 /\ pos <= 0
SellCondition(sig, pos) == sig = -1 /\ pos >= 0

\* position after the if/elif on a row with signal sig
EntryPosition(sig, pos) ==
    IF BuyCondition(sig, pos) THEN 1
    ELSE IF SellCondition(sig, pos) THEN -1
    ELSE pos

\* mutant of EntryPrice: every Buy or Sell row re-enters at its close
EntryPriceEverySignal(sig, pos, entry, c) == IF sig # 0 THEN c ELSE entry

\* mutant of EntryPrice: a flip keeps the entry price of the side it leaves
EntryPriceFromFlatOnly(sig, pos, entry, c) ==
    IF pos = 0 /\ sig # 0 THEN c ELSE entry

\* entry_price after the if/elif on a row with signal sig and close c
EntryPrice(sig, pos, entry, c) ==
    IF BuyCondition(sig, pos) \/ SellCondition(sig, pos) THEN c ELSE entry

\* what the if/elif printed
EntryLog(sig, pos, i) ==
    IF BuyCondition(sig, pos) THEN << <<"Buying", i>> >>
    ELSE IF SellCondition(sig, pos) THEN << <<"Selling", i>> >>
    ELSE << >>

\* mutant of ClosesOut: only a Long is closed
ClosesOutLongOnly(d, i, pos) == is_last_day(d, i) /\ pos > 0

\* `if is_last_day and position != 0`
ClosesOut(d, i, pos) == is_last_day(d, i) /\ pos # 0

\* mutant of CloseOutBalance: a Short is credited like a Long
CloseOutBalanceLongOnly(bal, pos, entry, c) ==
    IF pos # 0 THEN bal + (c - entry) ELSE bal

\* balance after the close-out block, for a position pos entered at entry
CloseOutBalance(bal, pos, entry, c) ==
    IF pos = 1 THEN bal + (c - entry)
    ELSE IF pos = -1 THEN bal + (entry - c)
    ELSE bal

CloseOutLog(pos, i) ==
    IF pos = 1 THEN << <<"Closing long", i>> >>
    ELSE IF pos = -1 THEN << <<"Closing short", i>> >>
    ELSE << >>

\* lines 118-120: the floor check breaks out of the loop; line 147 returns
FloorStop ==
    /\ pc = "loop"
    /\ HasNextRow(df, index)
    /\ InsufficientBalance(balance)
    /\ pc' = "done"
    /\ log' = log \o << <<"Insufficient balance", index>> >>
    /\ final_balance' = balance
    /\ UNCHANGED <<df, initial_balance, balance, position, entry_price, index>>
    /\ UNCHANGED <<smaVars, perfVars, quality_report>>
    /\ UNCHANGED <<argument, runs>>

\* lines 122-145: one iteration of the loop body
ProcessBar ==
    /\ pc = "loop"
    /\ HasNextRow(df, index)
    /\ ~InsufficientBalance(balance)
    /\ LET sig == df.signal[index]
           c   == Value(df.close[index])
           pos == EntryPosition(sig, position)
           ent == EntryPrice(sig, position, entry_price, c)
           out == ClosesOut(df, index, pos)
       IN  /\ entry_price' = ent
           /\ position' = IF out THEN 0 ELSE pos
           /\ balance' = IF out THEN CloseOutBalance(balance, pos, ent, c)
                         ELSE balance
           /\ log' = log \o << <<"Row", index>> >>
                         \o EntryLog(sig, position, index)
                         \o (IF out THEN CloseOutLog(pos, index) ELSE << >>)
    /\ index' = index + 1
    /\ UNCHANGED <<pc, df, initial_balance, final_balance>>
    /\ UNCHANGED <<smaVars, perfVars, quality_report>>
    /\ UNCHANGED <<argument, runs>>

\* the iterator is exhausted; line 147 returns
LoopExit ==
    /\ pc = "loop"
    /\ ~HasNextRow(df, index)
    /\ pc' = "done"
    /\ final_balance' = balance
    /\ UNCHANGED <<df, initial_balance, balance, position, entry_price, index,
                   log>>
    /\ UNCHANGED <<smaVars, perfVars, quality_report>>
    /\ UNCHANGED <<argument, runs>>

\* the timestamp of row i of rows r: each row lies r[i][1] after the one before
RECURSIVE RowTimestamp(_, _)
RowTimestamp(r, i) == IF i = 0 THEN 0 ELSE RowTimestamp(r, i - 1) + r[i][1]

\* a DataFrame with the columns simulate_trading reads, from its rows
BacktestFrame(r) ==
    [timestamp |-> [i \in 1..Len(r) |-> RowTimestamp(r, i)],
     close     |-> [i \in 1..Len(r) |-> Number(r[i][2])],
     signal    |-> [i \in 1..Len(r) |-> r[i][3]]]

\* the DataFrames simulate_trading is called on: rows in ascending timestamp
\* order, as the fetch concatenates them, a timestamp possibly repeated
BacktestFrames ==
    {BacktestFrame(r) :
        r \in {q \in SeqsUpTo(Gaps \X Closes \X Signals, MaxBars) :
                  Len(q) > 0 => q[1][1] = 1}}

Init ==
    /\ pc = "loop"
    /\ df \in BacktestFrames
    /\ initial_balance \in InitialBalances
    /\ balance = initial_balance
    /\ position = 0
    /\ entry_price = 0
    /\ index = 1
    /\ log = << >>
    /\ final_balance = None
    /\ SmaIdle /\ PerfIdle /\ QualityIdle
    /\ argument = df
    /\ RunsIdle

Next == FloorStop \/ ProcessBar \/ LoopExit

Spec == Init /\ [][Next]_vars

(***************************************************************************)
(* Two calls of simulate_trading in progress at once (threads, or one call *)
(* per instrument), their loop iterations interleaved in any order.        *)
(* balance, position and entry_price are locals of the call (lines         *)
(* 113-115): each call has its own.                                        *)
(***************************************************************************)

\* lines 113-115: the locals of a call on frame d with initial balance ib
StartLocals(d, ib) ==
    [pc |-> "loop", df |-> d, initial_balance |-> ib, balance |-> ib,
     position |-> 0, entry_price |-> 0, index |-> 1, final_balance |-> None]

\* lines 117-147: the next step of a call whose locals are l
SimStep(l) ==
    IF l.pc # "loop" THEN l
    ELSE IF ~HasNextRow(l.df, l.index) \/ InsufficientBalance(l.balance)
    THEN [l EXCEPT !.pc = "done", !.final_balance = l.balance]
    ELSE LET sig == l.df.signal[l.index]
             c   == Value(l.df.close[l.index])
             pos == EntryPosition(sig, l.position)
             ent == EntryPrice(sig, l.position, l.entry_price, c)
             out == ClosesOut(l.df, l.index, pos)
         IN  [l EXCEPT !.entry_price = ent,
                       !.position = IF out THEN 0 ELSE pos,
                       !.balance = IF out
                                   THEN CloseOutBalance(l.balance, pos, ent, c)
                                   ELSE l.balance,
                       !.index = l.index + 1]

\* mutant of Locals: balance, position and entry_price are module-level
\* names, the ones the first call set up
LocalsShared(rs, r) ==
    [rs[r] EXCEPT !.balance = rs[1].balance,
                  !.position = rs[1].position,
                  !.entry_price = rs[1].entry_price]

\* the locals call r reads: its own
Locals(rs, r) == rs[r]

\* one step of call r
RunStep(r) ==
    /\ pc = "runs"
    /\ runs[r].pc = "loop"
    /\ runs' = [runs EXCEPT ![r] = SimStep(Locals(runs, r))]
    /\ UNCHANGED <<pc, df, simVars, smaVars, perfVars, quality_report,
                   argument>>

RunIds == {1, 2}
RunCloses == {100, 110}
\* the first call starts above the floor, the second above or below it
RunBalances == <<{1005}, {995, 1005}>>

\* the frames of the two calls: rows at increasing timestamps, the first
\* close at 100
RunFrame(r) ==
    [timestamp |-> [i \in 1..Len(r) |-> i],
     close     |-> [i \in 1..Len(r) |-> Number(r[i][1])],
     signal    |-> [i \in 1..Len(r) |-> r[i][2]]]

RunFrames ==
    {RunFrame(r) :
        r \in {q \in SeqsUpTo(RunCloses \X Signals, MaxRunBars) :
                  Len(q) > 0 => q[1][1] = 100}}

InitRuns ==
    /\ pc = "runs"
    /\ df = [timestamp |-> << >>]
    /\ \E d1 \in RunFrames, d2 \in RunFrames :
       \E b1 \in RunBalances[1], b2 \in RunBalances[2] :
           runs = <<StartLocals(d1, b1), StartLocals(d2, b2)>>
    /\ argument = df
    /\ SimIdle /\ SmaIdle /\ PerfIdle /\ QualityIdle

NextRuns == \E r \in RunIds : RunStep(r)

SpecRuns == InitRuns /\ [][NextRuns]_vars

(***************************************************************************)
(* verify_data_quality (src/main.py:66-92).  Timestamps are never null;    *)
(* the cells of the numeric columns may be.                                *)
(***************************************************************************)
NumericColumns == {"open", "high", "low", "close", "volume"}

MissingIssue == "Data contains missing values."
DuplicateIssue == "Data contains duplicate timestamps."
NonPositiveIssue == "Data contains non-positive values in numeric columns."

\* the float columns of d, the ones a cell of which can be NaN
FloatColumns(d) == DOMAIN d \ {"timestamp", "signal"}

\* df.isnull(), at column c and row i
isnull(d, c, i) == c \in FloatColumns(d) /\ IsNaN(d[c][i])

\* mutant of duplicated: a row is compared with the row before it only
duplicatedAdjacent(ts, i) == i > 1 /\ ts[i] = ts[i - 1]

\* df['timestamp'].duplicated(), at row i: an earlier row has the timestamp
duplicated(ts, i) == \E j \in 1..(i - 1) : ts[j] = ts[i]

\* (df[[...]] <= 0), at column c and row i
NonPositive(d, c, i) == ~IsNaN(d[c][i]) /\ d[c][i][1] <= 0

\* mutant of QualityIssues: the checks chained with elif, the first failure
\* reported alone
QualityIssuesFirstOnly(missing, dup, nonpos) ==
    IF missing THEN <<MissingIssue>>
    ELSE IF dup THEN <<DuplicateIssue>>
    ELSE IF nonpos THEN <<NonPositiveIssue>>
    ELSE << >>

\* lines 70-82: three separate ifs, each appending its issue
QualityIssues(missing, dup, nonpos) ==
    (IF missing THEN <<MissingIssue>> ELSE << >>)
    \o (IF dup THEN <<DuplicateIssue>> ELSE << >>)
    \o (IF nonpos THEN <<NonPositiveIssue>> ELSE << >>)

verify_data_quality(d) ==
    LET rows    == 1..NRows(d)
        missing == \E c \in DOMAIN d : \E i \in rows : isnull(d, c, i)
        dups    == {i \in rows : duplicated(d.timestamp, i)}
        nonpos  == \E c \in NumericColumns : \E i \in rows : NonPositive(d, c, i)
    IN  [total_rows |-> NRows(d),
         missing_values |->
             [c \in DOMAIN d |-> Cardinality({i \in rows : isnull(d, c, i)})],
         duplicate_timestamps |-> Cardinality(dups),
         issues |-> QualityIssues(missing, dups # {}, nonpos)]

\* the call verify_data_quality(df)
VerifyDataQuality ==
    /\ pc = "verify_data_quality"
    /\ quality_report' = verify_data_quality(df)
    /\ pc' = "done"
    /\ UNCHANGED <<df, simVars, smaVars, perfVars>>
    /\ argument' = df
    /\ UNCHANGED runs

\* the frames verify_data_quality is called on: rows in any order, one price
\* per row for open, high, low and close, and a volume
QualityTimestamps == {1, 2}
QualityPrices == {NaN, Number(0), Number(100)}
QualityVolumes == {NaN, Number(-1), Number(50)}

QualityFrame(r) ==
    [timestamp |-> [i \in 1..Len(r) |-> r[i][1]],
     open      |-> [i \in 1..Len(r) |-> r[i][2]],
     high      |-> [i \in 1..Len(r) |-> r[i][2]],
     low       |-> [i \in 1..Len(r) |-> r[i][2]],
     close     |-> [i \in 1..Len(r) |-> r[i][2]],
     volume    |-> [i \in 1..Len(r) |-> r[i][3]]]

QualityFrames ==
    {QualityFrame(r) :
        r \in SeqsUpTo(QualityTimestamps \X QualityPrices \X QualityVolumes,
                       MaxQualityRows)}

InitQuality ==
    /\ pc = "verify_data_quality"
    /\ df \in QualityFrames
    /\ quality_report = None
    /\ SimIdle /\ SmaIdle /\ PerfIdle
    /\ argument = df
    /\ RunsIdle

NextQuality == VerifyDataQuality

SpecQuality == InitQuality /\ [][NextQuality]_vars

(***************************************************************************)
(* calculate_sma (src/main.py:94-98): df[column].rolling(window).mean()    *)
(***************************************************************************)

\* mutant of MinPeriods: a mean from the first observation on
MinPeriodsOne(w) == 1

\* rolling(window=w) leaves min_periods at its default, the window
MinPeriods(w) == w

\* The rolling aggregation after row i: the sum and the number of the
\* observations in the window ending at i.  Row i enters the window and
\* row i - w leaves it; a NaN is no observation.
RECURSIVE Rolling(_, _, _)
Rolling(col, w, i) ==
    IF i = 0 THEN [sum |-> Number(0), nobs |-> 0]
    ELSE LET prev  == Rolling(col, w, i - 1)
             added == IF IsNaN(col[i]) THEN prev
                      ELSE [sum  |-> FAdd(prev.sum, col[i]),
                            nobs |-> prev.nobs + 1]
         IN  IF i > w /\ ~IsNaN(col[i - w])
             THEN [sum  |-> FSub(added.sum, col[i - w]),
                   nobs |-> added.nobs - 1]
             ELSE added

\* .mean(): sum / nobs once min_periods observations are in the window
RollingMean(col, w, i) ==
    LET r == Rolling(col, w, i)
    IN  IF r.nobs >= MinPeriods(w) /\ r.nobs > 0
        THEN FDivInt(r.sum, r.nobs)
        ELSE NaN

calculate_sma(d, column, w) ==
    [i \in 1..Len(d[column]) |-> RollingMean(d[column], w, i)]

\* the call calculate_sma(df, 'close', window)
CalculateSMA ==
    /\ pc = "calculate_sma"
    /\ sma' = calculate_sma(df, "close", window)
    /\ pc' = "done"
    /\ UNCHANGED <<df, window, simVars, perfVars, quality_report>>
    /\ argument' = df
    /\ UNCHANGED runs

\* the columns calculate_sma is called on: prices, some of them missing
SmaCells == {NaN} \cup {Number(v) : v \in 1..5}

InitSMA ==
    /\ pc = "calculate_sma"
    /\ \E col \in SeqsUpTo(SmaCells, MaxLen) :
           df = [timestamp |-> [i \in 1..Len(col) |-> i], close |-> col]
    /\ window \in 1..MaxWindow
    /\ sma = << >>
    /\ SimIdle /\ PerfIdle /\ QualityIdle
    /\ argument = df
    /\ RunsIdle

NextSMA == CalculateSMA

SpecSMA == InitSMA /\ [][NextSMA]_vars

(***************************************************************************)
(* calculate_pnl and calculate_cagr (src/main.py:149-159), on Python       *)
(* numbers: a division by zero raises ZeroDivisionError, and a negative    *)
(* float to a fractional power is a complex number, no error.  A result is *)
(* kept as the expression base ** exponent - 1.                            *)
(***************************************************************************)
calculate_pnl(initial, final) == final - initial

Raised(error) == [kind |-> "raised", error |-> error]

\* what float.__pow__ yields for base ** exponent
PowerKind(base, exponent) ==
    IF base[1] = 0 /\ exponent[1] < 0 THEN "ZeroDivisionError"
    ELSE IF base[1] < 0 /\ ~IsWhole(exponent) THEN "complex"
    ELSE "float"

calculate_cagr(initial, final, y) ==
    IF initial = 0 \/ y[1] = 0 THEN Raised("ZeroDivisionError")
    ELSE LET base     == FDiv(Number(final), Number(initial))
             exponent == FDiv(Number(1), y)
             kind     == PowerKind(base, exponent)
         IN  IF kind \in {"float", "complex"}
             THEN [kind |-> kind, base |-> base, exponent |-> exponent]
             ELSE Raised(kind)

\* the call calculate_cagr(initial_balance, final_balance, years)
CalculateCagr ==
    /\ pc = "calculate_cagr"
    /\ cagr' = calculate_cagr(initial_balance, final_balance, years)
    /\ pc' = "done"
    /\ UNCHANGED <<df, simVars, smaVars, years, pnl, quality_report>>
    /\ UNCHANGED <<argument, runs>>

\* the arguments calculate_cagr is called with; years is days / 365.0
CagrBalances == {-5000, 0, 5000, 10000, 20000}
CagrDays == {-365, 0, 73, 365, 730, 1095}

InitCagr ==
    /\ pc = "calculate_cagr"
    /\ df = [timestamp |-> << >>]
    /\ initial_balance \in CagrBalances
    /\ final_balance \in CagrBalances
    /\ \E days \in CagrDays : years = FDiv(Number(days), Number(365))
    /\ balance = 0
    /\ position = 0
    /\ entry_price = 0
    /\ index = 1
    /\ log = << >>
    /\ pnl = 0
    /\ cagr = [kind |-> None]
    /\ SmaIdle /\ QualityIdle
    /\ argument = df
    /\ RunsIdle

NextCagr == CalculateCagr

SpecCagr == InitCagr /\ [][NextCagr]_vars

(***************************************************************************)
(* generate_signals (src/main.py:100-107)                                  *)
(***************************************************************************)

\* d with column c set to col, as df[c] = col does
WithColumn(d, c, col) ==
    [k \in DOMAIN d \cup {c} |-> IF k = c THEN col ELSE d[k]]

\* df.loc[mask, 'signal'] = v, on the signal column
SetWhere(col, mask, v) ==
    [i \in 1..Len(col) |-> IF mask[i] THEN v ELSE col[i]]

\* mutant of GreaterMask: a NaN counts as below every number
GreaterMaskNaNLow(x, y) ==
    [i \in 1..Len(x) |-> ~IsNaN(x[i]) /\ (IsNaN(y[i]) \/ FGT(x[i], y[i]))]

\* the boolean column x > y
GreaterMask(x, y) == [i \in 1..Len(x) |-> FGT(x[i], y[i])]

generate_signals(d) ==
    LET flat == [i \in 1..NRows(d) |-> 0]
        buy  == SetWhere(flat, GreaterMask(d.SMA_10, d.SMA_20), 1)
        sell == SetWhere(buy, GreaterMask(d.SMA_20, d.SMA_10), -1)
    IN  WithColumn(d, "signal", sell)

(***************************************************************************)
(* main (src/main.py:161-201), its parameters (initial_balance and the two *)
(* dates, hence years) taken as inputs.                                    *)
(***************************************************************************)
ShortWindow == 10
LongWindow == 20

\* what the fetch returns: rows at increasing timestamps; the close is a up
\* to row k, then b, and c on the last row
FetchPrices == {100, 200}

FetchedFrame(n, k, a, b, c) ==
    LET price == [i \in 1..n |->
                    Number(IF i = n THEN c ELSE IF i <= k THEN a ELSE b)]
    IN  [timestamp |-> [i \in 1..n |-> i],
         open      |-> price,
         high      |-> price,
         low       |-> price,
         close     |-> price,
         volume    |-> [i \in 1..n |-> Number(1)]]

FetchedFrames ==
    {FetchedFrame(n, k, a, b, c) :
        n \in 0..MaxRows, k \in 0..MaxRows,
        a \in FetchPrices, b \in FetchPrices, c \in FetchPrices}

\* line 174: with end_date not after start_date the fetch loop never runs
FetchOhlcv ==
    /\ pc = "fetch_ohlcv"
    /\ IF years[1] <= 0
       THEN df' = FetchedFrame(0, 0, 100, 100, 100)
       ELSE df' \in FetchedFrames
    /\ pc' = "verify_data_quality"
    /\ UNCHANGED <<simVars, smaVars, perfVars, quality_report>>
    /\ UNCHANGED <<argument, runs>>

\* lines 177-178
MainVerify ==
    /\ pc = "verify_data_quality"
    /\ quality_report' = verify_data_quality(df)
    /\ pc' = "sma_10"
    /\ UNCHANGED <<df, simVars, smaVars, perfVars>>
    /\ argument' = df
    /\ UNCHANGED runs

\* line 181
MainSMA10 ==
    /\ pc = "sma_10"
    /\ df' = WithColumn(df, "SMA_10", calculate_sma(df, "close", ShortWindow))
    /\ pc' = "sma_20"
    /\ UNCHANGED <<simVars, smaVars, perfVars, quality_report>>
    /\ argument' = df
    /\ UNCHANGED runs

\* line 182
MainSMA20 ==
    /\ pc = "sma_20"
    /\ df' = WithColumn(df, "SMA_20", calculate_sma(df, "close", LongWindow))
    /\ pc' = "generate_signals"
    /\ UNCHANGED <<simVars, smaVars, perfVars, quality_report>>
    /\ argument' = df
    /\ UNCHANGED runs

\* line 185.  generate_signals assigns the column into the frame it is passed
\* (lines 104-106) and returns that same frame (line 107), so the caller's
\* frame carries the column too.
MainSignals ==
    /\ pc = "generate_signals"
    /\ df' = generate_signals(df)
    /\ pc' = "simulate_trading"
    /\ UNCHANGED <<simVars, smaVars, perfVars, quality_report>>
    /\ argument' = generate_signals(df)
    /\ UNCHANGED runs

\* line 188 enters simulate_trading: lines 113-115
MainSimulate ==
    /\ pc = "simulate_trading"
    /\ balance' = initial_balance
    /\ position' = 0
    /\ entry_price' = 0
    /\ index' = 1
    /\ log' = << >>
    /\ pc' = "loop"
    /\ UNCHANGED <<df, initial_balance, final_balance, smaVars, perfVars,
                   quality_report>>
    /\ argument' = df
    /\ UNCHANGED runs

\* lines 189-198, once simulate_trading has returned
MainMetrics ==
    /\ pc = "done"
    /\ pnl' = calculate_pnl(initial_balance, final_balance)
    /\ cagr' = calculate_cagr(initial_balance, final_balance, years)
    /\ pc' = IF cagr'.kind = "raised" THEN "raised" ELSE "to_csv"
    /\ UNCHANGED <<df, simVars, smaVars, years, quality_report>>
    /\ UNCHANGED <<argument, runs>>

\* line 201
MainToCsv ==
    /\ pc = "to_csv"
    /\ pc' = "exit"
    /\ UNCHANGED <<df, simVars, smaVars, perfVars, quality_report>>
    /\ UNCHANGED <<argument, runs>>

MainBalances == {-1000, 0, 1000, 10000}
MainDays == {-365, 0, 1095}

InitMain ==
    /\ pc = "fetch_ohlcv"
    /\ df = [timestamp |-> << >>]
    /\ initial_balance \in MainBalances
    /\ \E days \in MainDays : years = FDiv(Number(days), Number(365))
    /\ balance = 0
    /\ position = 0
    /\ entry_price = 0
    /\ index = 1
    /\ log = << >>
    /\ final_balance = None
    /\ pnl = 0
    /\ cagr = [kind |-> None]
    /\ SmaIdle /\ QualityIdle
    /\ argument = df
    /\ RunsIdle

NextMain ==
    \/ FetchOhlcv \/ MainVerify \/ MainSMA10 \/ MainSMA20 \/ MainSignals
    \/ MainSimulate \/ FloorStop \/ ProcessBar \/ LoopExit
    \/ MainMetrics \/ MainToCsv

SpecMain == InitMain /\ [][NextMain]_vars

(***************************************************************************)
(* Vocabulary of the properties                                            *)
(***************************************************************************)
Range(s) == {s[i] : i \in 1..Len(s)}

\* the close column as whole numbers
ClosePrices(d) == [i \in 1..NRows(d) |-> Value(d.close[i])]

StrictlyIncreasing(ts) == \A i \in 1..(Len(ts) - 1) : ts[i] < ts[i + 1]

AllFlat(sig) == \A i \in 1..Len(sig) : sig[i] = 0

\* rows the loop body ran on
Processed == {e[2] : e \in {x \in Range(log) : x[1] = "Row"}}

\* The side a run over signals sig holds when every row has been through the
\* entry/flip step and nothing was closed before: that of the last signal
\* that is not Flat (0 when there is none).
HeldSide(sig) ==
    LET nz == {i \in 1..Len(sig) : sig[i] # 0}
    IN  IF nz = {} THEN 0
        ELSE sig[CHOOSE i \in nz : \A j \in nz : j <= i]

\* The row at which that side was entered: the first row carrying the held
\* side's signal with no opposite signal from it on.
EntryBar(sig) ==
    LET s  == HeldSide(sig)
        ok == {e \in 1..Len(sig) :
                 sig[e] = s /\ \A j \in e..Len(sig) : sig[j] # -s}
    IN  CHOOSE e \in ok : \A j \in ok : e <= j

(***************************************************************************)
(* C1: with strictly increasing timestamps and initial_balance >= 1000, a  *)
(* run that holds a position on the last bar returns initial_balance +     *)
(* (close_last - entry) for a Long and initial_balance + (entry -          *)
(* close_last) for a Short, entry being the close of the bar of entry.     *)
(***************************************************************************)
C1_ForcedCloseOut ==
    (/\ pc = "done"
     /\ NRows(df) >= 1
     /\ StrictlyIncreasing(df.timestamp)
     /\ initial_balance >= 1000
     /\ HeldSide(df.signal) # 0)
    => LET last  == ClosePrices(df)[NRows(df)]
           entry == ClosePrices(df)[EntryBar(df.signal)]
       IN  final_balance =
             IF HeldSide(df.signal) = 1
             THEN initial_balance + (last - entry)
             ELSE initial_balance + (entry - last)

\* a Short entered on the first of three bars at 100 and closed at 110
C1_Witness ==
    /\ pc = "done"
    /\ StrictlyIncreasing(df.timestamp)
    /\ initial_balance >= 1000
    /\ df.signal = <<-1, 0, 0>>
    /\ ClosePrices(df) = <<100, 90, 110>>
    /\ <<"Closing short", 3>> \in Range(log)
    /\ final_balance = initial_balance - 10

(***************************************************************************)
(* C2: with initial_balance < 1000 the run halts before any bar: nothing   *)
(* is entered, flipped or closed, and initial_balance is returned.         *)
(***************************************************************************)
C2_FloorBreachAtStart ==
    initial_balance < 1000
    => /\ Processed = {}
       /\ position = 0
       /\ entry_price = 0
       /\ balance = initial_balance
       /\ pc = "done" => final_balance = initial_balance

\* a three-bar series opening with a Buy, stopped at its first bar
C2_Witness ==
    /\ pc = "done"
    /\ initial_balance = 999
    /\ NRows(df) = 3
    /\ df.signal[1] = 1
    /\ log = << <<"Insufficient balance", 1>> >>
    /\ final_balance = 999

(***************************************************************************)
(* C3: on a series whose every signal is Flat the position is Flat at      *)
(* every point of the run and the run returns initial_balance.             *)
(***************************************************************************)
C3_AllFlatSignals ==
    AllFlat(df.signal)
    => /\ position = 0
       /\ balance = initial_balance
       /\ pc = "done" => final_balance = initial_balance

\* three Flat bars at different closes, all of them processed
C3_Witness ==
    /\ pc = "done"
    /\ AllFlat(df.signal)
    /\ initial_balance >= 1000
    /\ ClosePrices(df) = <<100, 110, 90>>
    /\ Processed = {1, 2, 3}
    /\ final_balance = initial_balance

(***************************************************************************)
(* C4: on an empty series the run ends at once, without raising, and       *)
(* returns initial_balance unchanged, whatever initial_balance is.         *)
(***************************************************************************)
C4_EmptySeries ==
    NRows(df) = 0
    => /\ log = << >>
       /\ balance = initial_balance
       /\ position = 0
       /\ pc = "loop" => ENABLED LoopExit
       /\ pc = "done" => final_balance = initial_balance

\* the empty series with a balance under the floor: returned, nothing printed
C4_Witness ==
    /\ NRows(df) = 0
    /\ pc = "done"
    /\ initial_balance < 1000
    /\ log = << >>
    /\ final_balance = initial_balance

(***************************************************************************)
(* C5: processing a bar that is not the final bar leaves balance           *)
(* unchanged.                                                              *)
(***************************************************************************)
C5_BalanceOnlyAtFinalBar ==
    [][(ProcessBar /\ index < NRows(df)) => balance' = balance]_vars

(***************************************************************************)
(* C7: for a window w >= 1 and a fully defined column, calculate_sma       *)
(* returns a column of the same length whose first w - 1 values are        *)
(* undefined and whose value at every later position is the arithmetic     *)
(* mean of the w input values ending there.                                *)
(***************************************************************************)
FullyDefined(col) == \A i \in 1..Len(col) : ~IsNaN(col[i])

RECURSIVE SumOfValues(_, _, _)
SumOfValues(col, from, to) ==
    IF from > to THEN 0 ELSE Value(col[to]) + SumOfValues(col, from, to - 1)

\* the mean of the w values of col ending at row i
TrailingMean(col, w, i) == <<SumOfValues(col, i - w + 1, i), w>>

C7_TrailingMean ==
    (pc = "done" /\ window >= 1 /\ FullyDefined(df.close))
    => /\ Len(sma) = NRows(df)
       /\ \A i \in 1..NRows(df) :
             IF i <= window - 1
             THEN IsNaN(sma[i])
             ELSE FEq(sma[i], TrailingMean(df.close, window, i))

\* closes [1, 2, 3, 4, 5] with window 3 give [_, _, 2, 3, 4]
C7_Witness ==
    /\ pc = "done"
    /\ window = 3
    /\ df.close = <<Number(1), Number(2), Number(3), Number(4), Number(5)>>
    /\ IsNaN(sma[1]) /\ IsNaN(sma[2])
    /\ FEq(sma[3], Number(2)) /\ FEq(sma[4], Number(3)) /\ FEq(sma[5], Number(4))

(***************************************************************************)
(* C8: calculate_cagr raises a domain error whenever final_balance < 0     *)
(* with initial_balance > 0 and years > 0.                                 *)
(***************************************************************************)
C8_NegativeFinalRaises ==
    (/\ pc = "done"
     /\ final_balance < 0
     /\ initial_balance > 0
     /\ years[1] > 0)
    => cagr.kind = "raised"

(***************************************************************************)
(* C10: on a series in which some timestamp occurs more than once,         *)
(* verify_data_quality reports duplicate_timestamps >= 1 and the           *)
(* duplicate-timestamp issue, and total_rows counts every row, the         *)
(* duplicates included.                                                    *)
(***************************************************************************)
HasRepeatedTimestamp(d) ==
    Cardinality(Range(d.timestamp)) < NRows(d)

C10_DuplicateTimestamps ==
    (pc = "done" /\ HasRepeatedTimestamp(df))
    => /\ quality_report.duplicate_timestamps >= 1
       /\ DuplicateIssue \in Range(quality_report.issues)
       /\ quality_report.total_rows = NRows(df)

\* timestamps [1, 2, 1]: one duplicate, not next to its first occurrence
C10_Witness ==
    /\ pc = "done"
    /\ df.timestamp = <<1, 2, 1>>
    /\ quality_report.duplicate_timestamps = 1
    /\ quality_report.issues = <<DuplicateIssue>>
    /\ quality_report.total_rows = 3

(***************************************************************************)
(* C6: generate_signals gives each bar Buy (1) if SMA_10 > SMA_20, Sell    *)
(* (-1) if SMA_20 > SMA_10 and Flat (0) otherwise, that is when they are   *)
(* equal or one of them is undefined; so every bar at a position below     *)
(* max(10, 20) - 1, counted from 0, is Flat.                               *)
(***************************************************************************)
SignalOf(s10, s20) ==
    IF IsNaN(s10) \/ IsNaN(s20) THEN 0
    ELSE IF s10[1] * s20[2] > s20[1] * s10[2] THEN 1
    ELSE IF s20[1] * s10[2] > s10[1] * s20[2] THEN -1
    ELSE 0

C6_SignalRule ==
    "signal" \in DOMAIN df
    => /\ Len(df.signal) = NRows(df)
       /\ \A i \in 1..NRows(df) :
             /\ df.signal[i] = SignalOf(df.SMA_10[i], df.SMA_20[i])
             /\ i <= LongWindow - 1 => df.signal[i] = 0

\* 22 bars rising from 100 to 200 after bar 15: SMA_10 is defined from bar 10
\* on, the first 19 bars are Flat, bar 20 is a Buy
C6_Witness ==
    /\ pc = "simulate_trading"
    /\ NRows(df) = 22
    /\ ~IsNaN(df.SMA_10[19]) /\ IsNaN(df.SMA_20[19])
    /\ \A i \in 1..19 : df.signal[i] = 0
    /\ df.signal[20] = 1
    /\ FEq(df.SMA_10[20], Number(150)) /\ FEq(df.SMA_20[20], Number(125))

(***************************************************************************)
(* C9: in the pipeline a zero or negative initial_balance, or a zero or    *)
(* negative years, raises before the backtest begins: simulate_trading     *)
(* creates no state and processes no bar.                                  *)
(***************************************************************************)
C9_FailsBeforeBacktest ==
    (initial_balance <= 0 \/ years[1] <= 0) => pc # "loop"

(***************************************************************************)
(* C11: verify_data_quality performs its three checks independently: the   *)
(* issues are exactly the issue strings of the checks that fail, whichever *)
(* others fail; it never raises; and on an empty series it reports         *)
(* total_rows 0, every count 0 and no issue.                               *)
(***************************************************************************)
HasMissingValue(d) ==
    \E c \in NumericColumns : \E i \in 1..NRows(d) : d[c][i] = NaN

HasNonPositiveValue(d) ==
    \E c \in NumericColumns : \E i \in 1..NRows(d) :
        d[c][i] # NaN /\ d[c][i][1] <= 0

FailedChecks(d) ==
    (IF HasMissingValue(d) THEN {MissingIssue} ELSE {})
    \cup (IF HasRepeatedTimestamp(d) THEN {DuplicateIssue} ELSE {})
    \cup (IF HasNonPositiveValue(d) THEN {NonPositiveIssue} ELSE {})

C11_IndependentChecks ==
    /\ pc = "verify_data_quality" => ENABLED VerifyDataQuality
    /\ pc = "done"
       => /\ Range(quality_report.issues) = FailedChecks(df)
          /\ Len(quality_report.issues) = Cardinality(FailedChecks(df))
          /\ NRows(df) = 0
             => /\ quality_report.total_rows = 0
                /\ quality_report.duplicate_timestamps = 0
                /\ \A c \in DOMAIN df : quality_report.missing_values[c] = 0
                /\ quality_report.issues = << >>

\* two rows at different timestamps, a missing price and a negative volume:
\* the first and the third check fail, the second does not
C11_Witness ==
    /\ pc = "done"
    /\ df.timestamp = <<1, 2>>
    /\ df.close = <<NaN, Number(100)>>
    /\ df.volume = <<Number(50), Number(-1)>>
    /\ quality_report.issues = <<MissingIssue, NonPositiveIssue>>
    /\ quality_report.missing_values.close = 1

(***************************************************************************)
(* C12: every pipeline stage (verify_data_quality, calculate_sma,          *)
(* generate_signals, simulate_trading) leaves the frame it was given       *)
(* unchanged: once the stage has returned, the frame its caller passed has *)
(* the columns and values it had before.                                   *)
(***************************************************************************)
StageStep ==
    \/ MainVerify \/ MainSMA10 \/ MainSMA20 \/ MainSignals
    \/ MainSimulate \/ FloorStop \/ ProcessBar \/ LoopExit

C12_StagesLeaveSeriesUnchanged ==
    [][StageStep => argument' = df]_vars

(***************************************************************************)
(* C13: two backtest runs whose per-bar steps are interleaved in any order *)
(* share no state: at every point each run is where it would be had it run *)
(* alone on its series and initial_balance, and it returns the balance it  *)
(* returns alone.                                                          *)
(***************************************************************************)
\* a run alone, after n steps
RECURSIVE Alone(_, _, _)
Alone(d, ib, n) ==
    IF n = 0 THEN StartLocals(d, ib) ELSE SimStep(Alone(d, ib, n - 1))

C13_RunsShareNothing ==
    pc = "runs"
    => \A r \in RunIds :
          LET d  == runs[r].df
              ib == runs[r].initial_balance
          IN  /\ \E n \in 0..(NRows(d) + 1) : runs[r] = Alone(d, ib, n)
              /\ runs[r].pc = "done"
                 => runs[r].final_balance
                      = Alone(d, ib, NRows(d) + 1).final_balance

\* the first run under way, Long from 100; the second, Short from 100, has
\* closed at 110 and returned 995: the first run's balance is untouched
C13_Witness ==
    /\ pc = "runs"
    /\ runs[1].pc = "loop" /\ runs[1].index = 2
    /\ runs[1].position = 1 /\ runs[1].entry_price = 100
    /\ runs[1].balance = 1005
    /\ runs[2].pc = "done" /\ runs[2].initial_balance = 1005
    /\ runs[2].df.signal = <<-1, 0>>
    /\ runs[2].final_balance = 995

(***************************************************************************)
(* C14: on every processed bar, a Buy with side Flat or Short makes the    *)
(* side Long and entry_price the bar's close; a Sell with side Flat or     *)
(* Long makes the side Short and entry_price the bar's close; a Buy while  *)
(* Long or a Sell while Short leaves side and entry_price unchanged.       *)
(***************************************************************************)
\* the side after the entry/flip step of the bar just processed: the side
\* the close-out closed if it fired on that bar, the side held otherwise
SideAfterEntry ==
    IF <<"Closing long", index>> \in Range(log') THEN 1
    ELSE IF <<"Closing short", index>> \in Range(log') THEN -1
    ELSE position'

C14_EntryFlipStep ==
    ProcessBar =>
        LET sig == df.signal[index]
            c   == ClosePrices(df)[index]
        IN  /\ (sig = 1 /\ position \in {0, -1})
               => SideAfterEntry = 1 /\ entry_price' = c
            /\ (sig = -1 /\ position \in {0, 1})
               => SideAfterEntry = -1 /\ entry_price' = c
            /\ ((sig = 1 /\ position = 1) \/ (sig = -1 /\ position = -1))
               => SideAfterEntry = position /\ entry_price' = entry_price

C14_EntryFlipTransition == [][C14_EntryFlipStep]_vars

\* Buy at 100, Buy again at 110 (no re-entry), then a flip to Short at 90
\* on the third of three bars, closed at once
C14_Witness ==
    /\ NRows(df) = 3
    /\ StrictlyIncreasing(df.timestamp)
    /\ df.signal = <<1, 1, -1>>
    /\ ClosePrices(df) = <<100, 110, 90>>
    /\ index = 4
    /\ entry_price = 90
    /\ log = << <<"Row", 1>>, <<"Buying", 1>>, <<"Row", 2>>,
                <<"Row", 3>>, <<"Selling", 3>>, <<"Closing short", 3>> >>

(***************************************************************************)
(* C15: on a bar whose signal is Flat the entry/flip step changes neither  *)
(* side nor entry_price; the bar changes something only if it is the final *)
(* bar and a position is open, which the close-out then realizes and       *)
(* resets to Flat.                                                         *)
(***************************************************************************)
C15_FlatBarStep ==
    (ProcessBar /\ df.signal[index] = 0) =>
        /\ entry_price' = entry_price
        /\ IF index = NRows(df) /\ position # 0
           THEN /\ position' = 0
                /\ balance' = balance
                     + position * (ClosePrices(df)[index] - entry_price)
           ELSE position' = position /\ balance' = balance

C15_FlatBarOnlyClosesOut == [][C15_FlatBarStep]_vars

(***************************************************************************)
(* C16: each bar runs floor check, entry/flip, close-out in that order.    *)
(* When balance is below 1000 at the start of a bar the run stops before   *)
(* that bar's signal is processed and no later bar is processed; side,     *)
(* entry_price and balance are left as they were.  The run always          *)
(* terminates, by the stop or with every bar consumed, and returns the     *)
(* balance it holds at that point.                                         *)
(***************************************************************************)
\* the bar the floor check stopped the run at, 0 if it did not
StoppedAt ==
    IF \E i \in 1..NRows(df) : <<"Insufficient balance", i>> \in Range(log)
    THEN CHOOSE i \in 1..NRows(df) : <<"Insufficient balance", i>> \in Range(log)
    ELSE 0

\* positions in the log of the events of bar i
EventAt(kinds, i) == {k \in 1..Len(log) : log[k][1] \in kinds /\ log[k][2] = i}

\* the events of every bar appear in the order row, entry/flip, close-out
StepsInOrder ==
    \A i \in 1..NRows(df) :
        \A r \in EventAt({"Row"}, i) :
            /\ \A e \in EventAt({"Buying", "Selling"}, i) : r < e
            /\ \A e \in EventAt({"Buying", "Selling"}, i) :
                   \A o \in EventAt({"Closing long", "Closing short"}, i) : e < o

C16_RunState ==
    /\ StepsInOrder
    /\ index \in 1..(NRows(df) + 1)
    /\ pc = "loop" => ENABLED (FloorStop \/ ProcessBar \/ LoopExit)
    /\ (pc = "loop" /\ HasNextRow(df, index) /\ balance < BalanceFloor)
           => ~ENABLED ProcessBar /\ ENABLED FloorStop
    /\ pc = "done" =>
           /\ final_balance = balance
           /\ IF StoppedAt # 0
              THEN /\ balance < BalanceFloor
                   /\ index = StoppedAt
                   /\ Processed = 1..(StoppedAt - 1)
              ELSE Processed = 1..NRows(df)

C16_RunStep ==
    /\ FloorStop => /\ pc' = "done"
                    /\ final_balance' = balance
                    /\ <<balance', position', entry_price', index'>>
                           = <<balance, position, entry_price, index>>
    /\ ProcessBar => index' = index + 1 /\ balance >= BalanceFloor
    /\ LoopExit => pc' = "done" /\ final_balance' = balance
    /\ pc = "done" => pc' = "done"

\* the for loop takes its next step whenever one is left
FairSpec == Spec /\ WF_vars(Next)

C16_FloorCheckFirstAndTermination ==
    /\ []C16_RunState
    /\ [][C16_RunStep]_vars
    /\ <>(pc = "done")

\* two bars processed, the second realized a loss, the run stopped before
\* the signal of the third bar
C16_Witness ==
    /\ pc = "done"
    /\ NRows(df) = 3
    /\ df.signal[3] = 1
    /\ StoppedAt = 3
    /\ Processed = {1, 2}
    /\ final_balance = 995
    /\ position = 0

(***************************************************************************)
(* C17: whenever simulate_trading returns, by the floor stop or with every *)
(* bar of a non-empty series consumed, position is 0.                      *)
(***************************************************************************)
C17_FlatAtReturn ==
    (pc = "done" /\ NRows(df) > 0) => position = 0

\* a Short entered on the second of three bars is closed on the third, and
\* the run returns with every bar consumed
C17_Witness ==
    /\ pc = "done"
    /\ NRows(df) = 3
    /\ StoppedAt = 0
    /\ Processed = {1, 2, 3}
    /\ <<"Selling", 2>> \in Range(log)
    /\ <<"Closing short", 3>> \in Range(log)
    /\ position = 0

(***************************************************************************)
(* C18: the forced close-out fires only on the bar that is last in order,  *)
(* duplicate timestamps included: a bar that is not last but carries the   *)
(* last bar's timestamp neither realizes P&L nor resets the position.      *)
(***************************************************************************)
C18_NonFinalBarStep ==
    (ProcessBar /\ index < NRows(df)) =>
        /\ position' = EntryPosition(df.signal[index], position)
        /\ \A e \in Range(log') :
               e[2] = index => e[1] \notin {"Closing long", "Closing short"}

C18_CloseOutOnlyOnLastBar == [][C18_NonFinalBarStep]_vars

(***************************************************************************)
(* C19: an entry or flip on the final bar is opened and closed at the same *)
(* close, so the bar realizes zero P&L; with strictly increasing           *)
(* timestamps and initial_balance >= 1000 the returned balance is          *)
(* initial_balance whenever the position was entered or flipped on the     *)
(* final bar.                                                              *)
(***************************************************************************)
\* the if/elif entered or flipped on bar i
EnteredAt(i) == EventAt({"Buying", "Selling"}, i) # {}

C19_FinalBarStep ==
    (ProcessBar /\ index = NRows(df)
         /\ EntryPosition(df.signal[index], position) # position)
    => /\ balance' = balance
       /\ position' = 0
       /\ entry_price' = ClosePrices(df)[index]

C19_Returned ==
    (/\ pc = "done"
     /\ StrictlyIncreasing(df.timestamp)
     /\ initial_balance >= BalanceFloor
     /\ NRows(df) > 0
     /\ EnteredAt(NRows(df)))
    => final_balance = initial_balance

C19_FinalBarEntryIsFree == []C19_Returned /\ [][C19_FinalBarStep]_vars

\* a Long held from 100 is flipped on the final bar at 110: the Short is
\* closed at 110 and the balance returned is the initial one
C19_Witness ==
    /\ pc = "done"
    /\ df.timestamp = <<1, 2, 3>>
    /\ df.signal = <<1, 0, -1>>
    /\ ClosePrices(df) = <<100, 110, 110>>
    /\ initial_balance = 1005
    /\ final_balance = 1005
    /\ log = << <<"Row", 1>>, <<"Buying", 1>>, <<"Row", 2>>, <<"Row", 3>>,
                <<"Selling", 3>>, <<"Closing short", 3>> >>

(***************************************************************************)
(* C20: with strictly increasing timestamps the floor stop can fire only   *)
(* before the first bar; when initial_balance >= 1000, balance is at least *)
(* 1000 at the start of every bar, every bar is processed, and balance     *)
(* differs from initial_balance only once the last bar is done.            *)
(***************************************************************************)
C20_FloorOnlyBeforeFirstBar ==
    StrictlyIncreasing(df.timestamp) =>
        /\ StoppedAt \in {0, 1}
        /\ StoppedAt = 1 <=> (NRows(df) > 0 /\ initial_balance < BalanceFloor
                                 /\ pc = "done")
        /\ initial_balance >= BalanceFloor =>
               /\ index <= NRows(df) =>
                      balance = initial_balance /\ balance >= BalanceFloor
               /\ pc = "done" => Processed = 1..NRows(df)

\* three bars at distinct timestamps, a Long entered at 100 on the first and
\* closed at 90 on the last: the balance 1005 fell below the floor only then
C20_Witness ==
    /\ pc = "done"
    /\ df.timestamp = <<1, 2, 3>>
    /\ df.signal = <<1, 0, 0>>
    /\ ClosePrices(df) = <<100, 110, 90>>
    /\ initial_balance = 1005
    /\ Processed = {1, 2, 3}
    /\ final_balance = 995

====
